---- MODULE Spec2Model ----
(***************************************************************************)
(* Model of the Mandrill API client (mandrill.py): the client constructor  *)
(* with its credential resolution, the request dispatcher Mandrill.call    *)
(* and the error classifier Mandrill.cast_error.                           *)
(*                                                                         *)
(* Python values are records J(t, s, l): t is the Python type name, s the  *)
(* text of a scalar, l the items of a container (a list's elements or a    *)
(* dict's entries [k, v] in insertion order).  A JSON text is a sequence   *)
(* of lexical tokens Tok(k, s).                                            *)
(***************************************************************************)
EXTENDS Integers, Sequences, FiniteSets, TLC

None == "None"

J(t, s, l) == [t |-> t, s |-> s, l |-> l]
PyNone == J("NoneType", "", <<>>)
PyTrue == J("bool", "True", <<>>)
PyFalse == J("bool", "False", <<>>)
PyInt(s) == J("int", s, <<>>)
PyStr(s) == J("str", s, <<>>)
PyList(l) == J("list", "", l)
PyDict(l) == J("dict", "", l)
\* a Python object the json module cannot serialize (a set, a file, ...)
PyObject(s) == J("object", s, <<>>)
Entry(k, v) == [k |-> k, v |-> v]

(***************************************************************************)
(* dict operations (insertion ordered, as Python's dict)                   *)
(***************************************************************************)
DictHas(d, k) == \E i \in 1..Len(d.l) : d.l[i].k = k

DictGet(d, k) == d.l[CHOOSE i \in 1..Len(d.l) : d.l[i].k = k].v

\* d[k] = v : replaces the value of an existing entry in place, else appends
DictSet(d, k, v) ==
    IF DictHas(d, k)
    THEN PyDict([i \in 1..Len(d.l) |-> IF d.l[i].k = k THEN Entry(k, v) ELSE d.l[i]])
    ELSE PyDict(Append(d.l, Entry(k, v)))

\* the entries of d other than k, in order
RECURSIVE DictWithout(_, _)
DictWithout(l, k) ==
    IF l = <<>> THEN <<>>
    ELSE IF Head(l).k = k THEN DictWithout(Tail(l), k)
    ELSE <<Head(l)>> \o DictWithout(Tail(l), k)

(***************************************************************************)
(* json.dumps: Python value -> JSON text (token sequence), TypeError for a *)
(* value that is not serializable.                                         *)
(***************************************************************************)
Tok(k, s) == [k |-> k, s |-> s]

RECURSIVE Serializable(_)
Serializable(v) ==
    CASE v.t \in {"NoneType", "bool", "int", "str"} -> TRUE
      [] v.t = "list" -> \A i \in 1..Len(v.l) : Serializable(v.l[i])
      [] v.t = "dict" -> \A i \in 1..Len(v.l) : Serializable(v.l[i].v)
      [] OTHER -> FALSE

RECURSIVE Encode(_)
RECURSIVE EncodeItems(_, _)
Encode(v) ==
    CASE v.t = "NoneType" -> <<Tok("null", "")>>
      [] v.t = "bool" -> IF v.s = "True" THEN <<Tok("true", "")>> ELSE <<Tok("false", "")>>
      [] v.t = "int" -> <<Tok("number", v.s)>>
      [] v.t = "str" -> <<Tok("string", v.s)>>
      [] v.t = "list" -> <<Tok("[", "")>> \o EncodeItems(v.l, FALSE) \o <<Tok("]", "")>>
      [] v.t = "dict" -> <<Tok("{", "")>> \o EncodeItems(v.l, TRUE) \o <<Tok("}", "")>>

EncodeItems(l, isDict) ==
    IF l = <<>> THEN <<>>
    ELSE LET item == IF isDict
                     THEN <<Tok("string", Head(l).k), Tok(":", "")>> \o Encode(Head(l).v)
                     ELSE Encode(Head(l))
         IN  item \o (IF Tail(l) = <<>> THEN <<>> ELSE <<Tok(",", "")>>)
                  \o EncodeItems(Tail(l), isDict)

dumps(v) ==
    IF Serializable(v)
    THEN [ok |-> TRUE, text |-> Encode(v), exc |-> None]
    ELSE [ok |-> FALSE, text |-> <<>>, exc |-> "TypeError"]

(***************************************************************************)
(* json.loads: JSON text -> Python value, ValueError for a text that is    *)
(* not one well-formed JSON value.                                         *)
(***************************************************************************)
Fail == [ok |-> FALSE, val |-> PyNone, next |-> 0]
Parsed(v, n) == [ok |-> TRUE, val |-> v, next |-> n]

RECURSIVE ParseValue(_, _)
RECURSIVE ParseElements(_, _, _)
RECURSIVE ParseMembers(_, _, _)

ParseValue(toks, i) ==
    IF i > Len(toks) THEN Fail
    ELSE LET tk == toks[i] IN
         CASE tk.k = "null" -> Parsed(PyNone, i + 1)
           [] tk.k = "true" -> Parsed(PyTrue, i + 1)
           [] tk.k = "false" -> Parsed(PyFalse, i + 1)
           [] tk.k = "number" -> Parsed(PyInt(tk.s), i + 1)
           [] tk.k = "string" -> Parsed(PyStr(tk.s), i + 1)
           [] tk.k = "[" ->
                IF i + 1 <= Len(toks) /\ toks[i + 1].k = "]"
                THEN Parsed(PyList(<<>>), i + 2)
                ELSE ParseElements(toks, i + 1, <<>>)
           [] tk.k = "{" ->
                IF i + 1 <= Len(toks) /\ toks[i + 1].k = "}"
                THEN Parsed(PyDict(<<>>), i + 2)
                ELSE ParseMembers(toks, i + 1, PyDict(<<>>))
           [] OTHER -> Fail

\* the elements of an array from position i on, acc the elements so far
ParseElements(toks, i, acc) ==
    LET r == ParseValue(toks, i) IN
    IF ~r.ok \/ r.next > Len(toks) THEN Fail
    ELSE CASE toks[r.next].k = "," -> ParseElements(toks, r.next + 1, Append(acc, r.val))
           [] toks[r.next].k = "]" -> Parsed(PyList(Append(acc, r.val)), r.next + 1)
           [] OTHER -> Fail

\* the members of an object from position i on; a repeated name keeps its
\* place and takes the later value
ParseMembers(toks, i, acc) ==
    IF i + 1 > Len(toks) \/ toks[i].k # "string" \/ toks[i + 1].k # ":" THEN Fail
    ELSE LET r == ParseValue(toks, i + 2) IN
         IF ~r.ok \/ r.next > Len(toks) THEN Fail
         ELSE CASE toks[r.next].k = "," ->
                     ParseMembers(toks, r.next + 1, DictSet(acc, toks[i].s, r.val))
                [] toks[r.next].k = "}" ->
                     Parsed(DictSet(acc, toks[i].s, r.val), r.next + 1)
                [] OTHER -> Fail

loads(text) ==
    LET r == ParseValue(text, 1) IN
    IF r.ok /\ r.next = Len(text) + 1
    THEN [ok |-> TRUE, val |-> r.val, exc |-> None]
    ELSE [ok |-> FALSE, val |-> PyNone, exc |-> "ValueError"]

(***************************************************************************)
(* The exception classes (lines 10-33) and ERROR_MAP                       *)
(***************************************************************************)
\* ERROR_MAP, were Unknown_Template given the class of Invalid_Template
ERROR_MAP_slip ==
    [n \in {"ValidationError", "Invalid_Key", "Unknown_Template", "Invalid_Tag_Name",
            "Invalid_Reject", "Unknown_Sender", "Unknown_Url", "Invalid_Template",
            "Unknown_Webhook", "Unknown_InboundDomain", "Unknown_Export"} |->
        CASE n = "ValidationError" -> "ValidationError"
          [] n = "Invalid_Key" -> "InvalidKeyError"
          [] n = "Unknown_Template" -> "InvalidTemplateError"
          [] n = "Invalid_Tag_Name" -> "InvalidTagNameError"
          [] n = "Invalid_Reject" -> "InvalidRejectError"
          [] n = "Unknown_Sender" -> "UnknownSenderError"
          [] n = "Unknown_Url" -> "UnknownUrlError"
          [] n = "Invalid_Template" -> "InvalidTemplateError"
          [] n = "Unknown_Webhook" -> "UnknownWebhookError"
          [] n = "Unknown_InboundDomain" -> "UnknownInboundDomainError"
          [] n = "Unknown_Export" -> "UnknownExportError"]

ERROR_MAP ==
    [n \in {"ValidationError", "Invalid_Key", "Unknown_Template", "Invalid_Tag_Name",
            "Invalid_Reject", "Unknown_Sender", "Unknown_Url", "Invalid_Template",
            "Unknown_Webhook", "Unknown_InboundDomain", "Unknown_Export"} |->
        CASE n = "ValidationError" -> "ValidationError"
          [] n = "Invalid_Key" -> "InvalidKeyError"
          [] n = "Unknown_Template" -> "UnknownTemplateError"
          [] n = "Invalid_Tag_Name" -> "InvalidTagNameError"
          [] n = "Invalid_Reject" -> "InvalidRejectError"
          [] n = "Unknown_Sender" -> "UnknownSenderError"
          [] n = "Unknown_Url" -> "UnknownUrlError"
          [] n = "Invalid_Template" -> "InvalidTemplateError"
          [] n = "Unknown_Webhook" -> "UnknownWebhookError"
          [] n = "Unknown_InboundDomain" -> "UnknownInboundDomainError"
          [] n = "Unknown_Export" -> "UnknownExportError"]

\* the classes declared "class X(Error)", and Error itself
ErrorClasses ==
    {"Error", "ValidationError", "InvalidKeyError", "UnknownTemplateError",
     "InvalidTagNameError", "InvalidRejectError", "UnknownSenderError",
     "UnknownUrlError", "InvalidTemplateError", "UnknownWebhookError",
     "UnknownInboundDomainError", "UnknownExportError"}

\* isinstance(e, Error)
IsError(e) == e.type \in ErrorClasses

\* an exception object: its class and its single constructor argument
Exc(type, arg) == [type |-> type, arg |-> arg]
NoExc == Exc(None, PyNone)

(***************************************************************************)
(* Python operators used by cast_error                                     *)
(***************************************************************************)
\* the strings of the model that hold another one as a proper substring
ProperSubstrings == {<<"status", "no status">>, <<"name", "no name">>}

\* needle in hay, for two str
StrContains(needle, hay) == needle = hay \/ <<needle, hay>> \in ProperSubstrings

\* key in container : [ok, val], or TypeError for a value that is no container
Contains(key, c) ==
    CASE c.t = "dict" -> [ok |-> TRUE, val |-> DictHas(c, key)]
      [] c.t = "list" -> [ok |-> TRUE, val |-> \E i \in 1..Len(c.l) : c.l[i] = PyStr(key)]
      [] c.t = "str" -> [ok |-> TRUE, val |-> StrContains(key, c.s)]
      [] OTHER -> [ok |-> FALSE, val |-> FALSE]

\* container[key] with a str key : [exc, val]
Subscript(c, key) ==
    CASE c.t = "dict" -> IF DictHas(c, key)
                         THEN [exc |-> None, val |-> DictGet(c, key)]
                         ELSE [exc |-> "KeyError", val |-> PyStr(key)]
      [] OTHER -> [exc |-> "TypeError", val |-> PyNone]

\* hash(v) succeeds
Hashable(v) == v.t \notin {"list", "dict"}

\* repr(v)
RECURSIVE Repr(_)
RECURSIVE ReprItems(_, _)
Repr(v) ==
    CASE v.t = "NoneType" -> "None"
      [] v.t \in {"bool", "int"} -> v.s
      [] v.t = "str" -> "'" \o v.s \o "'"
      [] v.t = "list" -> "[" \o ReprItems(v.l, FALSE) \o "]"
      [] v.t = "dict" -> "{" \o ReprItems(v.l, TRUE) \o "}"
      [] OTHER -> "<" \o v.s \o ">"

ReprItems(l, isDict) ==
    IF l = <<>> THEN ""
    ELSE (IF isDict THEN "'" \o Head(l).k \o "': " \o Repr(Head(l).v) ELSE Repr(Head(l)))
         \o (IF Tail(l) = <<>> THEN "" ELSE ", ")
         \o ReprItems(Tail(l), isDict)

(***************************************************************************)
(* Mandrill.cast_error: [raised, exc].  raised = TRUE when cast_error      *)
(* itself raises exc, FALSE when it returns exc to its caller.             *)
(***************************************************************************)
Raise(e) == [raised |-> TRUE, exc |-> e]
Return(e) == [raised |-> FALSE, exc |-> e]

Unexpected(result) ==
    Exc("Error", PyStr("We received an unexpected error: " \o Repr(result)))

\* Malformed, were only the presence of 'name' tested
MalformedNameOnly(result) ==
    LET hasName == Contains("name", result) IN
    IF ~hasName.ok THEN [exc |-> "TypeError", val |-> FALSE]
    ELSE [exc |-> None, val |-> ~hasName.val]

\* line 121: not 'status' in result or result['status'] != 'error' or
\* not 'name' in result, evaluated left to right: [exc, val]
Malformed(result) ==
    LET hasStatus == Contains("status", result) IN
    IF ~hasStatus.ok THEN [exc |-> "TypeError", val |-> FALSE]
    ELSE IF ~hasStatus.val THEN [exc |-> None, val |-> TRUE]
    ELSE LET status == Subscript(result, "status") IN
         IF status.exc # None THEN [exc |-> status.exc, val |-> FALSE]
         ELSE IF status.val # PyStr("error") THEN [exc |-> None, val |-> TRUE]
         ELSE LET hasName == Contains("name", result) IN
              IF ~hasName.ok THEN [exc |-> "TypeError", val |-> FALSE]
              ELSE [exc |-> None, val |-> ~hasName.val]

\* Classify, were the class looked up without the membership test
ClassifyNoDefault(result) ==
    LET name == Subscript(result, "name")
        message == Subscript(result, "message")
    IN  IF name.exc # None THEN Raise(Exc(name.exc, name.val))
        ELSE IF ~Hashable(name.val) THEN Raise(Exc("TypeError", PyNone))
        ELSE IF ~(name.val.t = "str" /\ name.val.s \in DOMAIN ERROR_MAP)
             THEN Raise(Exc("KeyError", name.val))
        ELSE IF message.exc # None THEN Raise(Exc(message.exc, message.val))
        ELSE Return(Exc(ERROR_MAP[name.val.s], message.val))

\* lines 124-126
Classify(result) ==
    LET name == Subscript(result, "name")
        message == Subscript(result, "message")
    IN  IF name.exc # None THEN Raise(Exc(name.exc, name.val))
        ELSE IF ~Hashable(name.val) THEN Raise(Exc("TypeError", PyNone))
        ELSE IF name.val.t = "str" /\ name.val.s \in DOMAIN ERROR_MAP
             THEN IF message.exc # None THEN Raise(Exc(message.exc, message.val))
                  ELSE Return(Exc(ERROR_MAP[name.val.s], message.val))
        ELSE IF message.exc # None THEN Raise(Exc(message.exc, message.val))
        ELSE Return(Exc("Error", message.val))

\* cast_error, were the generic error for a malformed body returned
cast_errorReturning(result) ==
    LET m == Malformed(result) IN
    IF m.exc # None THEN Raise(Exc(m.exc, PyNone))
    ELSE IF m.val THEN Return(Unexpected(result))
    ELSE Classify(result)

cast_error(result) ==
    LET m == Malformed(result) IN
    IF m.exc # None THEN Raise(Exc(m.exc, PyNone))
    ELSE IF m.val THEN Raise(Unexpected(result))
    ELSE Classify(result)

(***************************************************************************)
(* The client                                                              *)
(***************************************************************************)
VARIABLES
    environ,    \* os.environ, a dict
    files,      \* the file system: path -> [readable, content]
    client,     \* "none" before Mandrill(...), then "ready", or "failed" when __init__ raised
    ctor,       \* the arguments __init__ was called with and the exception it raised
    self,       \* the fields of the Mandrill object: session, level, last_request, apikey
    frame,      \* per thread: the position and the locals of its running call
    caller,     \* per thread: the arguments of its call; params is the caller's mapping object
    outcome,    \* per thread: what its last call returned or raised
    net,        \* the requests handed to session.post, in order
    logged,     \* the calls of logger.log, in order
    calls       \* how many times call has been invoked

vars == <<environ, files, client, ctor, self, frame, caller, outcome, net, logged, calls>>

ROOT == "https://mandrillapp.com/api/1.0/"
\* requests.codes.ok
codes_ok == 200

Threads == {"main", "worker"}

(***************************************************************************)
(* Credential files.  The text of a file is a sequence of pieces, each a   *)
(* whitespace character or a run of other characters.                      *)
(***************************************************************************)
Whitespace == {" ", "\n", "\t"}
KeyPaths == <<"~/.mandrill.key", "/etc/mandrill.key">>

RECURSIVE LStrip(_)
LStrip(txt) ==
    IF txt # <<>> /\ Head(txt) \in Whitespace THEN LStrip(Tail(txt)) ELSE txt

RECURSIVE RStrip(_)
RStrip(txt) ==
    IF txt # <<>> /\ txt[Len(txt)] \in Whitespace
    THEN RStrip(SubSeq(txt, 1, Len(txt) - 1)) ELSE txt

\* strip, were only the leading whitespace removed (str.lstrip)
stripLeading(txt) == LStrip(txt)

\* str.strip()
strip(txt) == RStrip(LStrip(txt))

\* the Python str made of the pieces
RECURSIVE Text(_)
Text(txt) == IF txt = <<>> THEN "" ELSE Head(txt) \o Text(Tail(txt))

\* Mandrill.read_configs, from position i of paths on
RECURSIVE ReadFrom(_, _)
ReadFrom(fs, i) ==
    IF i > Len(KeyPaths) THEN PyNone
    ELSE LET f == fs[KeyPaths[i]]
             apikey == Text(strip(f.content))
         IN  IF f.readable /\ apikey # "" THEN PyStr(apikey) ELSE ReadFrom(fs, i + 1)

read_configs(fs) == ReadFrom(fs, 1)

NoFrame == [pc |-> "idle", url |-> "", params |-> <<>>,
            r |-> [status_code |-> 0, text |-> <<>>, peer |-> "", elapsed |-> 0]]
NoOutcome == [kind |-> "none", val |-> PyNone, exc |-> NoExc]
Returned(v) == [kind |-> "return", val |-> v, exc |-> NoExc]
Raised(e) == [kind |-> "raise", val |-> PyNone, exc |-> e]

\* Resolve, were the key files consulted before the environment
ResolveFilesFirst(apikey, env, fs) ==
    IF apikey = PyNone
    THEN IF read_configs(fs) # PyNone
         THEN read_configs(fs)
         ELSE IF DictHas(env, "MANDRILL_APIKEY")
              THEN DictGet(env, "MANDRILL_APIKEY")
              ELSE PyNone
    ELSE apikey

\* lines 73-77: the key __init__ settles on, None when no source has one
Resolve(apikey, env, fs) ==
    IF apikey = PyNone
    THEN IF DictHas(env, "MANDRILL_APIKEY")
         THEN DictGet(env, "MANDRILL_APIKEY")
         ELSE read_configs(fs)
    ELSE apikey

\* Mandrill.__init__(apikey, debug)
Construct(apikey, debug) ==
    /\ client = "none"
    /\ LET resolved == Resolve(apikey, environ, files)
           fields == [session |-> "session", level |-> IF debug THEN "INFO" ELSE "DEBUG",
                      last_request |-> PyNone, apikey |-> PyNone]
       IN  IF resolved = PyNone
           THEN /\ client' = "failed"
                /\ self' = fields
                /\ ctor' = [apikey |-> apikey, debug |-> debug,
                            exc |-> Exc("Error", PyStr("You must provide a Mandrill API key"))]
           ELSE /\ client' = "ready"
                /\ self' = [fields EXCEPT !.apikey = resolved]
                /\ ctor' = [apikey |-> apikey, debug |-> debug, exc |-> NoExc]
    /\ UNCHANGED <<environ, files, frame, caller, outcome, net, logged, calls>>

\* LogRecord, were every record logged at INFO
LogRecordInfo(level, event, what, body) ==
    [level |-> "INFO", event |-> event, what |-> what, body |-> body]

\* Mandrill.log
LogRecord(level, event, what, body) ==
    [level |-> level, event |-> event, what |-> what, body |-> body]

(***************************************************************************)
(* Mandrill.call(url, params) run by thread t, in four steps               *)
(***************************************************************************)
\* MergeKey, were the key only a default (params.setdefault('key', apikey))
MergeKeyDefault(params, apikey) ==
    LET fresh == IF params = PyNone THEN PyDict(<<>>) ELSE params
    IN  IF DictHas(fresh, "key") THEN fresh ELSE DictSet(fresh, "key", apikey)

\* MergeKey, were the key read from the environment again at every call
MergeKeyFromEnv(params, apikey) ==
    LET fresh == IF params = PyNone THEN PyDict(<<>>) ELSE params
    IN  DictSet(fresh, "key", IF DictHas(environ, "MANDRILL_APIKEY")
                              THEN DictGet(environ, "MANDRILL_APIKEY")
                              ELSE apikey)

\* MergeKey, were the key stored only into the dict call makes itself and a
\* mapping given by the caller left as it is
MergeKeyIntoOwn(params, apikey) ==
    IF params = PyNone THEN PyDict(<<Entry("key", apikey)>>) ELSE params

\* lines 97-98: params defaults to a new dict, the key is stored into it
MergeKey(params, apikey) ==
    LET fresh == IF params = PyNone THEN PyDict(<<>>) ELSE params
    IN  DictSet(fresh, "key", apikey)

\* Call, were the slot cleared when a call begins
CallClearing(t, url, params) ==
    /\ client = "ready"
    /\ frame[t].pc = "idle"
    /\ LET merged == MergeKey(params, self.apikey)
           body == dumps(merged)
       IN  /\ caller' = [caller EXCEPT ![t] =
                            [url |-> url, given |-> params,
                             params |-> IF params = PyNone THEN PyNone ELSE merged]]
           /\ IF body.ok
              THEN /\ frame' = [frame EXCEPT ![t] =
                                   [NoFrame EXCEPT !.pc = "post", !.url = url, !.params = body.text]]
                   /\ outcome' = [outcome EXCEPT ![t] = NoOutcome]
                   /\ logged' = Append(logged,
                                   LogRecord(self.level, "POST to", ROOT \o url \o ".json", body.text))
              ELSE /\ frame' = [frame EXCEPT ![t] = [NoFrame EXCEPT !.url = url]]
                   /\ outcome' = [outcome EXCEPT ![t] = Raised(Exc(body.exc, PyNone))]
                   /\ logged' = logged
    /\ calls' = calls + 1
    /\ self' = [self EXCEPT !.last_request = PyNone]
    /\ UNCHANGED <<environ, files, client, ctor, net>>

\* lines 97-100: merge the key into params, serialize, log
Call(t, url, params) ==
    /\ client = "ready"
    /\ frame[t].pc = "idle"
    /\ LET merged == MergeKey(params, self.apikey)
           body == dumps(merged)
       IN  /\ caller' = [caller EXCEPT ![t] =
                            [url |-> url, given |-> params,
                             params |-> IF params = PyNone THEN PyNone ELSE merged]]
           /\ IF body.ok
              THEN /\ frame' = [frame EXCEPT ![t] =
                                   [NoFrame EXCEPT !.pc = "post", !.url = url, !.params = body.text]]
                   /\ outcome' = [outcome EXCEPT ![t] = NoOutcome]
                   /\ logged' = Append(logged,
                                   LogRecord(self.level, "POST to", ROOT \o url \o ".json", body.text))
              ELSE /\ frame' = [frame EXCEPT ![t] = [NoFrame EXCEPT !.url = url]]
                   /\ outcome' = [outcome EXCEPT ![t] = Raised(Exc(body.exc, PyNone))]
                   /\ logged' = logged
    /\ calls' = calls + 1
    /\ UNCHANGED <<environ, files, client, ctor, self, net>>

\* Request, were a session opened for every call
RequestOwnSession(session, url, data) ==
    [session |-> session \o "'", method |-> "POST", url |-> ROOT \o url \o ".json", data |-> data,
     headers |-> [content_type |-> "application/json", user_agent |-> "Mandrill-Python/1.0.34"]]

Request(session, url, data) ==
    [session |-> session, method |-> "POST", url |-> ROOT \o url \o ".json", data |-> data,
     headers |-> [content_type |-> "application/json", user_agent |-> "Mandrill-Python/1.0.34"]]

\* lines 101-106: session.post answers with a response
Post(t, status, text, peer, elapsed) ==
    /\ frame[t].pc = "post"
    /\ net' = Append(net, Request(self.session, frame[t].url, frame[t].params))
    /\ frame' = [frame EXCEPT ![t].pc = "received",
                              ![t].r = [status_code |-> status, text |-> text,
                                        peer |-> peer, elapsed |-> elapsed]]
    /\ UNCHANGED <<environ, files, client, ctor, self, caller, outcome, logged, calls>>

\* PostFails, were a failed POST sent again (the call stays before its POST)
PostFailsRetry(t) ==
    /\ frame[t].pc = "post"
    /\ net' = Append(net, Request(self.session, frame[t].url, frame[t].params))
    /\ UNCHANGED <<environ, files, client, ctor, self, frame, caller, outcome, logged, calls>>

\* PostFails, were the transport failure caught and raised as mandrill.Error
PostFailsWrapped(t) ==
    /\ frame[t].pc = "post"
    /\ net' = Append(net, Request(self.session, frame[t].url, frame[t].params))
    /\ frame' = [frame EXCEPT ![t].pc = "idle"]
    /\ outcome' = [outcome EXCEPT ![t] = Raised(Exc("Error", PyStr("ConnectionError")))]
    /\ UNCHANGED <<environ, files, client, ctor, self, caller, logged, calls>>

\* line 102: session.post raises (connection refused, timeout)
PostFails(t) ==
    /\ frame[t].pc = "post"
    /\ net' = Append(net, Request(self.session, frame[t].url, frame[t].params))
    /\ frame' = [frame EXCEPT ![t].pc = "idle"]
    /\ outcome' = [outcome EXCEPT ![t] = Raised(Exc("ConnectionError", PyNone))]
    /\ UNCHANGED <<environ, files, client, ctor, self, caller, logged, calls>>

\* Record, were the slot filled once and kept (the first record retained)
RecordFirstOnly(t) ==
    /\ frame[t].pc = "received"
    /\ logged' = Append(logged,
                    LogRecord(self.level, "Received", frame[t].r.status_code, frame[t].r.text))
    /\ self' = IF self.last_request # PyNone THEN self
               ELSE [self EXCEPT !.last_request =
                        [url |-> frame[t].url, request_body |-> frame[t].params,
                         response_body |-> frame[t].r.text, remote_addr |-> frame[t].r.peer,
                         response |-> frame[t].r, time |-> frame[t].r.elapsed]]
    /\ frame' = [frame EXCEPT ![t].pc = "parse"]
    /\ UNCHANGED <<environ, files, client, ctor, caller, outcome, net, calls>>

\* Record, were the slot one dict updated in place, the request's fields in
\* this step and the response's fields later
RecordInPlace(t) ==
    /\ frame[t].pc = "received"
    /\ logged' = Append(logged,
                    LogRecord(self.level, "Received", frame[t].r.status_code, frame[t].r.text))
    /\ self' = [self EXCEPT !.last_request =
                    IF self.last_request = PyNone
                    THEN [url |-> frame[t].url, request_body |-> frame[t].params,
                          response_body |-> frame[t].r.text, remote_addr |-> frame[t].r.peer,
                          response |-> frame[t].r, time |-> frame[t].r.elapsed]
                    ELSE [self.last_request EXCEPT !.url = frame[t].url,
                                                   !.request_body = frame[t].params]]
    /\ frame' = [frame EXCEPT ![t].pc = "parse"]
    /\ UNCHANGED <<environ, files, client, ctor, caller, outcome, net, calls>>

\* Record, were the slot written only for a response with status 200 (the
\* assignment placed after the status test)
RecordOnSuccess(t) ==
    /\ frame[t].pc = "received"
    /\ logged' = Append(logged,
                    LogRecord(self.level, "Received", frame[t].r.status_code, frame[t].r.text))
    /\ self' = IF frame[t].r.status_code # codes_ok \/ ~loads(frame[t].r.text).ok THEN self
               ELSE [self EXCEPT !.last_request =
                        [url |-> frame[t].url, request_body |-> frame[t].params,
                         response_body |-> frame[t].r.text, remote_addr |-> frame[t].r.peer,
                         response |-> frame[t].r, time |-> frame[t].r.elapsed]]
    /\ frame' = [frame EXCEPT ![t].pc = "parse"]
    /\ UNCHANGED <<environ, files, client, ctor, caller, outcome, net, calls>>

\* lines 108-111: log the response, store last_request
Record(t) ==
    /\ frame[t].pc = "received"
    /\ logged' = Append(logged,
                    LogRecord(self.level, "Received", frame[t].r.status_code, frame[t].r.text))
    /\ self' = [self EXCEPT !.last_request =
                    [url |-> frame[t].url, request_body |-> frame[t].params,
                     response_body |-> frame[t].r.text, remote_addr |-> frame[t].r.peer,
                     response |-> frame[t].r, time |-> frame[t].r.elapsed]]
    /\ frame' = [frame EXCEPT ![t].pc = "parse"]
    /\ UNCHANGED <<environ, files, client, ctor, caller, outcome, net, calls>>

\* Dispatch, were an error-shaped body classified whatever the HTTP status
DispatchByBody(r) ==
    LET result == loads(r.text) IN
    IF ~result.ok THEN Raised(Exc(result.exc, PyNone))
    ELSE IF \/ r.status_code # codes_ok
            \/ /\ result.val.t = "dict"
               /\ DictHas(result.val, "status")
               /\ DictGet(result.val, "status") = PyStr("error")
         THEN Raised(cast_error(result.val).exc)
    ELSE Returned(result.val)

\* Dispatch, were an unclassifiable body of a failed response handed back
DispatchLenient(r) ==
    LET result == loads(r.text) IN
    IF ~result.ok THEN Raised(Exc(result.exc, PyNone))
    ELSE IF r.status_code # codes_ok
         THEN IF Malformed(result.val).exc = None /\ Malformed(result.val).val
              THEN Returned(result.val)
              ELSE Raised(cast_error(result.val).exc)
    ELSE Returned(result.val)

\* Dispatch, were every 2xx status taken for success
DispatchAny2xx(r) ==
    LET result == loads(r.text) IN
    IF ~result.ok THEN Raised(Exc(result.exc, PyNone))
    ELSE IF r.status_code \notin 200..299 THEN Raised(cast_error(result.val).exc)
    ELSE Returned(result.val)

\* Dispatch, were the status examined before the body is parsed
DispatchStatusFirst(r) ==
    LET result == loads(r.text) IN
    IF r.status_code # codes_ok
    THEN IF result.ok THEN Raised(cast_error(result.val).exc)
         ELSE Raised(Exc("Error", PyNone))
    ELSE IF ~result.ok THEN Raised(Exc(result.exc, PyNone))
    ELSE Returned(result.val)

\* lines 113-117: what call returns or raises for the response r
Dispatch(r) ==
    LET result == loads(r.text) IN
    IF ~result.ok THEN Raised(Exc(result.exc, PyNone))
    ELSE IF r.status_code # codes_ok THEN Raised(cast_error(result.val).exc)
    ELSE Returned(result.val)

\* Finish, were a failure reported differently by a client made with debug
FinishDebug(t) ==
    /\ frame[t].pc = "parse"
    /\ outcome' = [outcome EXCEPT ![t] =
                       IF self.level = "INFO" /\ Dispatch(frame[t].r).kind = "raise"
                       THEN Raised(Exc("Error", PyStr(frame[t].url)))
                       ELSE Dispatch(frame[t].r)]
    /\ frame' = [frame EXCEPT ![t].pc = "idle"]
    /\ UNCHANGED <<environ, files, client, ctor, self, caller, net, logged, calls>>

\* Finish, were the classifier to log the body it classifies
FinishLogging(t) ==
    /\ frame[t].pc = "parse"
    /\ outcome' = [outcome EXCEPT ![t] = Dispatch(frame[t].r)]
    /\ frame' = [frame EXCEPT ![t].pc = "idle"]
    /\ logged' = IF loads(frame[t].r.text).ok /\ frame[t].r.status_code # codes_ok
                 THEN Append(logged, LogRecord(self.level, "cast_error",
                                               frame[t].r.status_code, frame[t].r.text))
                 ELSE logged
    /\ UNCHANGED <<environ, files, client, ctor, self, caller, net, calls>>

\* Finish, were a failed response answered by sending the request again
FinishRetry(t) ==
    /\ frame[t].pc = "parse"
    /\ IF frame[t].r.status_code # codes_ok
       THEN /\ frame' = [frame EXCEPT ![t].pc = "post"]
            /\ outcome' = outcome
       ELSE /\ frame' = [frame EXCEPT ![t].pc = "idle"]
            /\ outcome' = [outcome EXCEPT ![t] = Dispatch(frame[t].r)]
    /\ UNCHANGED <<environ, files, client, ctor, self, caller, net, logged, calls>>

\* Finish, were the response taken from the slot and not from the local r
FinishFromSlot(t) ==
    /\ frame[t].pc = "parse"
    /\ outcome' = [outcome EXCEPT ![t] = Dispatch(self.last_request.response)]
    /\ frame' = [frame EXCEPT ![t].pc = "idle"]
    /\ UNCHANGED <<environ, files, client, ctor, self, caller, net, logged, calls>>

Finish(t) ==
    /\ frame[t].pc = "parse"
    /\ outcome' = [outcome EXCEPT ![t] = Dispatch(frame[t].r)]
    /\ frame' = [frame EXCEPT ![t].pc = "idle"]
    /\ UNCHANGED <<environ, files, client, ctor, self, caller, net, logged, calls>>

(***************************************************************************)
(* The inputs explored                                                     *)
(***************************************************************************)
Environments ==
    {PyDict(<<>>),
     PyDict(<<Entry("MANDRILL_APIKEY", PyStr("envkey"))>>),
     PyDict(<<Entry("MANDRILL_APIKEY", PyStr(""))>>)}

File(readable, content) == [readable |-> readable, content |-> content]
HomeFiles == {File(FALSE, <<>>), File(TRUE, <<"\n">>), File(TRUE, <<" ", "homekey", "\n">>)}
EtcFiles == {File(FALSE, <<>>), File(TRUE, <<"etckey", "\n">>)}

ApikeyArgs == {PyNone, PyStr("argkey"), PyStr("")}

Urls == {"users/ping", "templates/info"}

ParamsGiven ==
    {PyNone,
     PyDict(<<>>),
     PyDict(<<Entry("name", PyStr("missing"))>>),
     PyDict(<<Entry("key", PyStr("callerkey")), Entry("name", PyStr("missing"))>>),
     PyDict(<<Entry("message", PyObject("set"))>>)}

Statuses == {200, 201, 500}

\* the texts a message field takes, the first MaxMessages of them explored
MessagePool == <<"m", "No such template", "">>
MaxMessages == 2
Messages == {MessagePool[i] : i \in 1..(IF MaxMessages < Len(MessagePool)
                                        THEN MaxMessages ELSE Len(MessagePool))}

ErrorBody(name, message) ==
    PyDict(<<Entry("status", PyStr("error")), Entry("code", PyInt("5")),
             Entry("name", name), Entry("message", PyStr(message))>>)

\* the payloads a response carries as well-formed JSON
Payloads ==
    {ErrorBody(PyStr(n), m) : n \in DOMAIN ERROR_MAP, m \in Messages}
    \cup {ErrorBody(n, "m") : n \in {PyStr("Something_New"), PyStr("invalid_key"),
                                     PyInt("5"), PyList(<<>>)}}
    \cup {PyDict(<<>>),
          PyDict(<<Entry("status", PyStr("ok")), Entry("name", PyStr("Invalid_Key")),
                   Entry("message", PyStr("m"))>>),
          PyDict(<<Entry("name", PyStr("Invalid_Key")), Entry("message", PyStr("m"))>>),
          PyDict(<<Entry("status", PyStr("error")), Entry("message", PyStr("m"))>>),
          PyDict(<<Entry("status", PyStr("error")), Entry("name", PyStr("Invalid_Key"))>>),
          PyDict(<<Entry("status", PyStr("error")), Entry("name", PyStr("Something_New"))>>),
          PyDict(<<Entry("username", PyStr("u")), Entry("reputation", PyInt("42"))>>),
          PyList(<<PyDict(<<Entry("email", PyStr("a@b.c")), Entry("status", PyStr("sent"))>>)>>),
          PyList(<<>>),
          PyList(<<PyStr("status")>>),
          PyStr("PONG!"),
          PyStr("no status"),
          PyInt("5"),
          PyTrue,
          PyNone}

\* response texts as the transport delivers them: the payloads serialized,
\* texts that are not JSON, and an object that repeats a name
Bodies ==
    {Encode(v) : v \in Payloads}
    \cup {<<>>,
          <<Tok("junk", "<html>")>>,
          <<Tok("{", ""), Tok("string", "status"), Tok(":", ""), Tok("string", "error")>>,
          <<Tok("string", "PONG!"), Tok("string", "PONG!")>>,
          <<Tok("[", ""), Tok("number", "1"), Tok(",", ""), Tok("]", "")>>,
          <<Tok("{", ""), Tok("string", "status"), Tok(":", ""), Tok("string", "ok"), Tok(",", ""),
            Tok("string", "name"), Tok(":", ""), Tok("string", "Invalid_Key"), Tok(",", ""),
            Tok("string", "status"), Tok(":", ""), Tok("string", "error"), Tok(",", ""),
            Tok("string", "message"), Tok(":", ""), Tok("string", "m"), Tok("}", "")>>}

\* the peer address read from the socket (or not) and the elapsed time
Wire == {[peer |-> "203.0.113.9:443", elapsed |-> 12], [peer |-> "None:None", elapsed |-> 340]}

(***************************************************************************)
(* One process: it constructs a client and dispatches one request          *)
(***************************************************************************)
Init ==
    /\ environ \in Environments
    /\ files \in {[p \in {KeyPaths[1], KeyPaths[2]} |-> IF p = KeyPaths[1] THEN home ELSE etc] :
                      home \in HomeFiles, etc \in EtcFiles}
    /\ client = "none"
    /\ ctor = [apikey |-> PyNone, debug |-> FALSE, exc |-> NoExc]
    /\ self = [session |-> "", level |-> "", last_request |-> PyNone, apikey |-> PyNone]
    /\ frame = [t \in Threads |-> NoFrame]
    /\ caller = [t \in Threads |-> [url |-> "", given |-> PyNone, params |-> PyNone]]
    /\ outcome = [t \in Threads |-> NoOutcome]
    /\ net = <<>>
    /\ logged = <<>>
    /\ calls = 0

DoConstruct == \E apikey \in ApikeyArgs, debug \in BOOLEAN : Construct(apikey, debug)
DoCall == calls = 0 /\ \E url \in Urls, params \in ParamsGiven : Call("main", url, params)
DoPost ==
    \E status \in Statuses, text \in Bodies, w \in Wire :
        Post("main", status, text, w.peer, w.elapsed)
DoPostFails == PostFails("main")
DoRecord == Record("main")
DoFinish == Finish("main")

Next == DoConstruct \/ DoCall \/ DoPost \/ DoPostFails \/ DoRecord \/ DoFinish

Spec == Init /\ [][Next]_vars

(***************************************************************************)
(* Properties                                                              *)
(***************************************************************************)
\* thread t's call has ended (returned or raised)
Completed(t) == frame[t].pc = "idle" /\ outcome[t].kind # "none"
\* ... and it ended on an HTTP response
Answered(t) == Completed(t) /\ frame[t].r # NoFrame.r
\* ... whose status is not OK and whose body is well-formed JSON
Failed(t) == Answered(t) /\ frame[t].r.status_code # 200 /\ loads(frame[t].r.text).ok
ParsedBody(t) == loads(frame[t].r.text).val
Has(d, k, v) == d.t = "dict" /\ DictHas(d, k) /\ DictGet(d, k) = v
Field(d, k) == DictGet(d, k)

\* C1: a response with status 200 and a well-formed JSON body makes call
\* return the parsed value of that body, whatever the endpoint and params:
\* the value a payload was serialized from comes back as that same value.
C1_ReturnsParsedBody ==
    \A t \in Threads :
        Answered(t) /\ frame[t].r.status_code = 200 =>
            /\ loads(frame[t].r.text).ok => outcome[t] = Returned(ParsedBody(t))
            /\ \A v \in Payloads : frame[t].r.text = Encode(v) => outcome[t] = Returned(v)

C1_Witness ==
    /\ Answered("main")
    /\ caller["main"].url = "users/ping"
    /\ caller["main"].given = PyDict(<<>>)
    /\ frame["main"].r.status_code = 200
    /\ frame["main"].r.text = <<Tok("string", "PONG!")>>
    /\ outcome["main"] = Returned(PyStr("PONG!"))

\* C2: a call ends in exactly one of two ways, returning or raising; on a
\* response whose status is not 200 it raises and hands back no value, and a
\* value it returns is the whole decoded body of a 200 response.
C2_FailedResponseRaises ==
    \A t \in Threads :
        Completed(t) =>
            /\ outcome[t].kind \in {"return", "raise"}
            /\ Answered(t) /\ frame[t].r.status_code # 200 =>
                   outcome[t].kind = "raise" /\ outcome[t].val = PyNone
            /\ outcome[t].kind = "return" =>
                   /\ Answered(t)
                   /\ frame[t].r.status_code = 200
                   /\ outcome[t].exc = NoExc
                   /\ loads(frame[t].r.text) = [ok |-> TRUE, val |-> outcome[t].val, exc |-> None]
            /\ outcome[t].kind = "raise" => outcome[t].exc # NoExc

C2_Witness ==
    /\ Answered("main")
    /\ frame["main"].r.status_code = 500
    /\ ParsedBody("main") =
           PyDict(<<Entry("username", PyStr("u")), Entry("reputation", PyInt("42"))>>)
    /\ outcome["main"].kind = "raise"

\* C3 as claimed: call returns the parsed body for every 2xx status that
\* carries well-formed JSON and raises only for a status outside 2xx.
C3_Original ==
    \A t \in Threads :
        Answered(t) /\ loads(frame[t].r.text).ok =>
            (outcome[t].kind = "return" <=> frame[t].r.status_code \in 200..299)

\* C3: call treats a response as a failure exactly when its status is not
\* 200: with well-formed JSON it returns the parsed body for status 200 and
\* raises for every other status, 201 and the other 2xx included.
C3_SuccessIsStatus200 ==
    \A t \in Threads :
        Answered(t) /\ loads(frame[t].r.text).ok =>
            /\ outcome[t].kind = "return" <=> frame[t].r.status_code = 200
            /\ outcome[t].kind = "raise" <=> frame[t].r.status_code # 200
            /\ outcome[t].kind = "return" => outcome[t].val = ParsedBody(t)

C3_Witness ==
    /\ Answered("main")
    /\ frame["main"].r.status_code = 201
    /\ ParsedBody("main") = PyStr("PONG!")
    /\ loads(frame["main"].r.text).ok
    /\ outcome["main"].kind = "raise"

\* the taxonomy: remote error name, local error kind
Taxonomy ==
    {<<"ValidationError", "ValidationError">>,
     <<"Invalid_Key", "InvalidKeyError">>,
     <<"Unknown_Template", "UnknownTemplateError">>,
     <<"Invalid_Tag_Name", "InvalidTagNameError">>,
     <<"Invalid_Reject", "InvalidRejectError">>,
     <<"Unknown_Sender", "UnknownSenderError">>,
     <<"Unknown_Url", "UnknownUrlError">>,
     <<"Invalid_Template", "InvalidTemplateError">>,
     <<"Unknown_Webhook", "UnknownWebhookError">>,
     <<"Unknown_InboundDomain", "UnknownInboundDomainError">>,
     <<"Unknown_Export", "UnknownExportError">>}
TaxonomyNames == {p[1] : p \in Taxonomy}

\* C4: an error body {status: "error", name: N, message: m} with N in the
\* taxonomy, received with a non-OK status, makes call raise the kind the
\* taxonomy assigns to N with m as its detail; distinct names have distinct
\* kinds.
C4_TaxonomyNameRaisesItsKind ==
    /\ \A t \in Threads :
           Failed(t) =>
               LET body == ParsedBody(t) IN
               \A p \in Taxonomy :
                   /\ Has(body, "status", PyStr("error"))
                   /\ Has(body, "name", PyStr(p[1]))
                   /\ DictHas(body, "message")
                   => outcome[t] = Raised(Exc(p[2], Field(body, "message")))
    /\ DOMAIN ERROR_MAP = TaxonomyNames
    /\ \A a, b \in DOMAIN ERROR_MAP : a # b => ERROR_MAP[a] # ERROR_MAP[b]

C4_Witness ==
    /\ Answered("main")
    /\ caller["main"].url = "templates/info"
    /\ caller["main"].given = PyDict(<<Entry("name", PyStr("missing"))>>)
    /\ frame["main"].r.status_code = 500
    /\ ParsedBody("main") = ErrorBody(PyStr("Unknown_Template"), "No such template")
    /\ outcome["main"] = Raised(Exc("UnknownTemplateError", PyStr("No such template")))

C6_MalformedObjectRaisesError ==
    \A t \in Threads :
        Failed(t) =>
            LET body == ParsedBody(t) IN
            /\ body.t = "dict"
            /\ \/ ~DictHas(body, "status")
               \/ Field(body, "status") # PyStr("error")
               \/ ~DictHas(body, "name")
            => outcome[t] = Raised(Exc("Error",
                   PyStr("We received an unexpected error: " \o Repr(body))))

C6_Witness ==
    /\ Answered("main")
    /\ frame["main"].r.status_code = 500
    /\ Has(ParsedBody("main"), "status", PyStr("ok"))
    /\ Has(ParsedBody("main"), "name", PyStr("Invalid_Key"))
    /\ outcome["main"].exc.type = "Error"

\* C7 as claimed: a parsed body that is no mapping (array, string, number,
\* boolean, null), received with a non-OK status, yields the base kind Error
\* carrying the raw body, and no other exception type escapes.
C7_NonMappingRaisesError ==
    \A t \in Threads :
        Failed(t) /\ ParsedBody(t).t # "dict" =>
            outcome[t] = Raised(Exc("Error",
                PyStr("We received an unexpected error: " \o Repr(ParsedBody(t)))))

\* C8 as claimed: every failure call raises for a non-OK status with a
\* parseable JSON body is an instance of Error, a body with status "error"
\* and a name but no message included.
C8_EveryRemoteFailureIsError ==
    \A t \in Threads :
        Failed(t) => outcome[t].kind = "raise" /\ IsError(outcome[t].exc)

\* the call a request of net belongs to
SentBy(req, t) == req.url = ROOT \o caller[t].url \o ".json" /\ frame[t].params = req.data
GivenEntries(t) == IF caller[t].given = PyNone THEN <<>> ELSE caller[t].given.l

\* C9: the JSON body of every request POSTed holds 'key' equal to the
\* client's credential and otherwise exactly the caller's params; a 'key'
\* given by the caller is overwritten, with params omitted or empty too.
C9_RequestCarriesCredential ==
    \A i \in 1..Len(net) :
        /\ loads(net[i].data).ok
        /\ Has(loads(net[i].data).val, "key", self.apikey)
        /\ \E t \in Threads :
               /\ SentBy(net[i], t)
               /\ DictWithout(loads(net[i].data).val.l, "key") = DictWithout(GivenEntries(t), "key")

C9_Witness ==
    /\ Len(net) = 1
    /\ Has(caller["main"].given, "key", PyStr("callerkey"))
    /\ Has(loads(net[1].data).val, "key", self.apikey)
    /\ Has(loads(net[1].data).val, "name", PyStr("missing"))
    /\ self.apikey # PyStr("callerkey")

\* what a key file yields: its text stripped, when readable and not blank
Yields(f) == f.readable /\ Text(strip(f.content)) # ""
EnvSet == DictHas(environ, "MANDRILL_APIKEY")

\* C10: the credential of a constructed client is the explicit argument when
\* given, else the environment variable when set, else the key of
\* ~/.mandrill.key, else that of /etc/mandrill.key.  With only the
\* environment variable set construction succeeds and every request carries
\* that value under 'key'.
C10_CredentialPriority ==
    /\ client = "ready" =>
           /\ ctor.apikey # PyNone => self.apikey = ctor.apikey
           /\ ctor.apikey = PyNone /\ EnvSet => self.apikey = Field(environ, "MANDRILL_APIKEY")
           /\ ctor.apikey = PyNone /\ ~EnvSet /\ Yields(files["~/.mandrill.key"]) =>
                  self.apikey = PyStr(Text(strip(files["~/.mandrill.key"].content)))
           /\ /\ ctor.apikey = PyNone
              /\ ~EnvSet
              /\ ~Yields(files["~/.mandrill.key"])
              /\ Yields(files["/etc/mandrill.key"])
              => self.apikey = PyStr(Text(strip(files["/etc/mandrill.key"].content)))
    /\ /\ client # "none"
       /\ ctor.apikey = PyNone
       /\ EnvSet
       /\ ~Yields(files["~/.mandrill.key"])
       /\ ~Yields(files["/etc/mandrill.key"])
       => /\ client = "ready"
          /\ \A i \in 1..Len(net) :
                 Has(loads(net[i].data).val, "key", Field(environ, "MANDRILL_APIKEY"))

C10_Witness ==
    /\ client = "ready"
    /\ ctor.apikey = PyNone
    /\ environ = PyDict(<<Entry("MANDRILL_APIKEY", PyStr("envkey"))>>)
    /\ ~Yields(files["~/.mandrill.key"])
    /\ ~Yields(files["/etc/mandrill.key"])
    /\ Len(net) = 1
    /\ Has(loads(net[1].data).val, "key", PyStr("envkey"))

(***************************************************************************)
(* Credential resolution over the states a key file can be in: one process *)
(* that constructs a client and pings                                      *)
(***************************************************************************)
\* missing, unreadable, empty, blank, a key with whitespace around it and
\* inside it, a bare key
CredHomeFiles ==
    {File(FALSE, <<>>), File(FALSE, <<"secret">>), File(TRUE, <<>>),
     File(TRUE, <<" ", "\n", "\t">>),
     File(TRUE, <<"\t", "home", " ", "key", "\n", " ">>),
     File(TRUE, <<"homekey">>)}
CredEtcFiles ==
    {File(FALSE, <<>>), File(FALSE, <<"secret">>), File(TRUE, <<>>),
     File(TRUE, <<"\n">>),
     File(TRUE, <<" ", "etckey", "\n">>)}

InitCred ==
    /\ environ \in Environments
    /\ files \in {[p \in {KeyPaths[1], KeyPaths[2]} |-> IF p = KeyPaths[1] THEN home ELSE etc] :
                      home \in CredHomeFiles, etc \in CredEtcFiles}
    /\ client = "none"
    /\ ctor = [apikey |-> PyNone, debug |-> FALSE, exc |-> NoExc]
    /\ self = [session |-> "", level |-> "", last_request |-> PyNone, apikey |-> PyNone]
    /\ frame = [t \in Threads |-> NoFrame]
    /\ caller = [t \in Threads |-> [url |-> "", given |-> PyNone, params |-> PyNone]]
    /\ outcome = [t \in Threads |-> NoOutcome]
    /\ net = <<>>
    /\ logged = <<>>
    /\ calls = 0

CredCall == calls = 0 /\ Call("main", "users/ping", PyDict(<<>>))
CredPost ==
    \E status \in {200, 500}, w \in Wire :
        Post("main", status, Encode(PyStr("PONG!")), w.peer, w.elapsed)

NextCred == DoConstruct \/ CredCall \/ CredPost \/ DoPostFails \/ DoRecord \/ DoFinish

SpecCred == InitCred /\ [][NextCred]_vars

\* C11 as claimed: construction fails with the configuration error whenever
\* no source yields a non-empty value, so no constructed client holds an
\* empty credential, an empty apikey argument or an empty MANDRILL_APIKEY
\* included.
C11_NoEmptyCredential ==
    /\ client = "ready" => self.apikey.t = "str" /\ self.apikey.s # ""
    /\ /\ client # "none"
       /\ ctor.apikey \in {PyNone, PyStr("")}
       /\ ~EnvSet \/ Field(environ, "MANDRILL_APIKEY") = PyStr("")
       /\ ~Yields(files["~/.mandrill.key"])
       /\ ~Yields(files["/etc/mandrill.key"])
       => client = "failed" /\ ctor.exc.type = "Error"

\* key is the text of content without the whitespace around it
Trimmed(content, key) ==
    \E i, j \in 1..Len(content) :
        /\ i <= j
        /\ content[i] \notin Whitespace
        /\ content[j] \notin Whitespace
        /\ \A k \in 1..Len(content) : k < i \/ k > j => content[k] \in Whitespace
        /\ key = Text(SubSeq(content, i, j))

\* a key file without a value: missing, unreadable, empty or all whitespace
NoValue(f) == ~f.readable \/ \A k \in 1..Len(f.content) : f.content[k] \in Whitespace

\* C12: with no apikey argument and no environment variable the credential
\* is the text of ~/.mandrill.key trimmed of surrounding whitespace; a file
\* that is missing, unreadable, empty or blank yields nothing, so resolution
\* falls through to /etc/mandrill.key and then to the configuration error.
C12_KeyFileTrimmedAndFallThrough ==
    client # "none" /\ ctor.apikey = PyNone /\ ~EnvSet =>
        LET home == files["~/.mandrill.key"]
            etc == files["/etc/mandrill.key"]
        IN  /\ ~NoValue(home) =>
                   /\ client = "ready"
                   /\ self.apikey.t = "str"
                   /\ Trimmed(home.content, self.apikey.s)
            /\ NoValue(home) /\ ~NoValue(etc) =>
                   /\ client = "ready"
                   /\ self.apikey.t = "str"
                   /\ Trimmed(etc.content, self.apikey.s)
            /\ NoValue(home) /\ NoValue(etc) =>
                   /\ client = "failed"
                   /\ ctor.exc = Exc("Error", PyStr("You must provide a Mandrill API key"))

C12_Witness ==
    /\ client = "ready"
    /\ ctor.apikey = PyNone
    /\ ~EnvSet
    /\ files["~/.mandrill.key"] = File(TRUE, <<" ", "\n", "\t">>)
    /\ files["/etc/mandrill.key"] = File(TRUE, <<" ", "etckey", "\n">>)
    /\ self.apikey = PyStr("etckey")

(***************************************************************************)
(* A session: a client that lives on and serves two callers, one call at a *)
(* time, while the environment it was configured from changes              *)
(***************************************************************************)
MaxCalls == 2

\* os.environ and the home key file change after the client was built
Rotate ==
    /\ client = "ready"
    /\ ~Has(environ, "MANDRILL_APIKEY", PyStr("rotated"))
    /\ environ' = DictSet(environ, "MANDRILL_APIKEY", PyStr("rotated"))
    /\ files' = [files EXCEPT !["~/.mandrill.key"] = File(TRUE, <<"rotated", "\n">>)]
    /\ UNCHANGED <<client, ctor, self, frame, caller, outcome, net, logged, calls>>

SessionCalls ==
    {[url |-> "users/ping", params |-> PyDict(<<>>)],
     [url |-> "templates/info",
      params |-> PyDict(<<Entry("key", PyStr("callerkey")), Entry("name", PyStr("missing"))>>)],
     [url |-> "users/ping", params |-> PyDict(<<Entry("message", PyObject("set"))>>)]}

SessionResponses ==
    {[status_code |-> 200, text |-> Encode(PyStr("PONG!")),
      peer |-> "203.0.113.9:443", elapsed |-> 12],
     [status_code |-> 500, text |-> Encode(ErrorBody(PyStr("Invalid_Key"), "m")),
      peer |-> "None:None", elapsed |-> 340],
     [status_code |-> 500, text |-> <<Tok("junk", "<html>")>>,
      peer |-> "203.0.113.9:443", elapsed |-> 7]}

InitSession ==
    /\ environ \in {PyDict(<<>>), PyDict(<<Entry("MANDRILL_APIKEY", PyStr("envkey"))>>)}
    /\ files \in {[p \in {KeyPaths[1], KeyPaths[2]} |->
                      IF p = KeyPaths[1] THEN home ELSE File(FALSE, <<>>)] :
                      home \in {File(FALSE, <<>>), File(TRUE, <<" ", "homekey", "\n">>)}}
    /\ client = "none"
    /\ ctor = [apikey |-> PyNone, debug |-> FALSE, exc |-> NoExc]
    /\ self = [session |-> "", level |-> "", last_request |-> PyNone, apikey |-> PyNone]
    /\ frame = [t \in Threads |-> NoFrame]
    /\ caller = [t \in Threads |-> [url |-> "", given |-> PyNone, params |-> PyNone]]
    /\ outcome = [t \in Threads |-> NoOutcome]
    /\ net = <<>>
    /\ logged = <<>>
    /\ calls = 0

SessionCall ==
    /\ calls < MaxCalls
    /\ \A u \in Threads : frame[u].pc = "idle"
    /\ \E t \in Threads, c \in SessionCalls : Call(t, c.url, c.params)
SessionPost ==
    \E t \in Threads, r \in SessionResponses : Post(t, r.status_code, r.text, r.peer, r.elapsed)
SessionPostFails == \E t \in Threads : PostFails(t)
SessionRecord == \E t \in Threads : Record(t)
SessionFinish == \E t \in Threads : Finish(t)

NextSession ==
    \/ DoConstruct
    \/ Rotate
    \/ SessionCall
    \/ SessionPost
    \/ SessionPostFails
    \/ SessionRecord
    \/ SessionFinish

SpecSession == InitSession /\ [][NextSession]_vars

\* the values the credential sources hold
SourceValues(apikey) ==
    {apikey}
    \cup (IF EnvSet THEN {Field(environ, "MANDRILL_APIKEY")} ELSE {})
    \cup {PyStr(Text(strip(files[KeyPaths[i]].content))) : i \in 1..Len(KeyPaths)}

\* C13: the credential is resolved once, from the sources as they are when
\* the client is constructed, and never changes: every step of a constructed
\* client leaves apikey as it was, and every request sent carries it under
\* 'key', also after the environment variable and the key file were changed.
C13_CredentialImmutable ==
    [][/\ client = "none" /\ client' = "ready" =>
              self'.apikey # PyNone /\ self'.apikey \in SourceValues(ctor'.apikey)
       /\ client = "ready" => client' = "ready" /\ self'.apikey = self.apikey
       /\ client' = "ready" =>
              /\ self'.apikey # PyStr("rotated")
              /\ \A i \in 1..Len(net') : Has(loads(net'[i].data).val, "key", self'.apikey)]_vars

C13_Witness ==
    /\ client = "ready"
    /\ ctor.apikey = PyNone
    /\ Has(environ, "MANDRILL_APIKEY", PyStr("rotated"))
    /\ self.apikey = PyStr("envkey")
    /\ Len(net) = 2
    /\ \A i \in 1..2 : Has(loads(net[i].data).val, "key", PyStr("envkey"))
    /\ \A t \in Threads : Completed(t)

\* how many records of the log announce event ev
Logged(ev) == Cardinality({i \in 1..Len(logged) : logged[i].event = ev})
\* the calls that have serialized their params and not yet POSTed
Posting == {t \in Threads : frame[t].pc = "post"}

\* C14: every invocation of call POSTs at most once: the requests sent and
\* the calls about to POST add up to the calls that serialized their params
\* (a call whose params cannot be serialized sends nothing), whatever the
\* outcomes were, and a call is never in a position of waiting or retrying.
C14_AtMostOnePostPerCall ==
    /\ Len(net) + Cardinality(Posting) = Logged("POST to")
    /\ Logged("POST to") <= calls
    /\ \A t \in Threads :
           /\ frame[t].pc \in {"idle", "post", "received", "parse"}
           /\ outcome[t].kind = "raise" => frame[t].pc = "idle"
           /\ Completed(t) /\ frame[t].params = <<>> => outcome[t].exc.type = "TypeError"

C14_Witness ==
    /\ calls = 2
    /\ Len(net) = 1
    /\ \A t \in Threads : Completed(t)
    /\ outcome["main"].exc.type = "ConnectionError"
    /\ outcome["worker"].exc.type = "TypeError"

\* the call of t ended at its POST: params were sent and no response came
TransportFailed(t) == Completed(t) /\ frame[t].params # <<>> /\ frame[t].r = NoFrame.r

\* C15: a call whose POST fails at the transport layer raises that very
\* failure: it is not a mandrill.Error kind, nothing is returned, and the
\* call stops there (no response is logged or stored for it).
C15_TransportFailurePropagates ==
    \A t \in Threads :
        TransportFailed(t) =>
            /\ outcome[t] = Raised(Exc("ConnectionError", PyNone))
            /\ ~IsError(outcome[t].exc)
            /\ outcome[t].kind # "return"
            /\ calls = 1 => Logged("Received") = 0 /\ self.last_request = PyNone

C15_Witness ==
    /\ TransportFailed("worker")
    /\ outcome["worker"].exc.type = "ConnectionError"
    /\ Len(net) = 1
    /\ net[1].data = frame["worker"].params

\* the response texts explored that are not JSON: nothing, markup, an object
\* cut short, two values in a row, a trailing comma
NotJson ==
    {<<>>,
     <<Tok("junk", "<html>")>>,
     <<Tok("{", ""), Tok("string", "status"), Tok(":", ""), Tok("string", "error")>>,
     <<Tok("string", "PONG!"), Tok("string", "PONG!")>>,
     <<Tok("[", ""), Tok("number", "1"), Tok(",", ""), Tok("]", "")>>}

\* C16: a response whose body is not valid JSON makes call raise the parse
\* failure whatever the HTTP status: it is never returned as a value and
\* never raised as a mandrill.Error kind.
C16_InvalidJsonRaisesParseFailure ==
    \A t \in Threads :
        Answered(t) =>
            /\ frame[t].r.text \in NotJson <=> ~loads(frame[t].r.text).ok
            /\ frame[t].r.text \in NotJson =>
                   /\ outcome[t] = Raised(Exc("ValueError", PyNone))
                   /\ ~IsError(outcome[t].exc)
                   /\ outcome[t].kind # "return"

C16_Witness ==
    /\ Answered("main")
    /\ frame["main"].r.status_code = 500
    /\ frame["main"].r.text =
           <<Tok("{", ""), Tok("string", "status"), Tok(":", ""), Tok("string", "error")>>
    /\ outcome["main"].exc.type = "ValueError"

\* the slot holds the record of the call of t: its endpoint, the body sent
\* for it (the caller's params with the credential, serialized) and the
\* response it received
HoldsCallOf(slot, t, c, f, key) ==
    /\ slot # PyNone
    /\ slot.url = c[t].url
    /\ slot.request_body = dumps(MergeKey(c[t].given, key)).text
    /\ slot.response_body = f[t].r.text
    /\ slot.response = f[t].r
    /\ slot.time = f[t].r.elapsed
    /\ slot.remote_addr = f[t].r.peer

\* C17 as stated: every call overwrites the slot, so when a call ends, the
\* slot holds the record of that call.
C17_Original ==
    [][\A t \in Threads :
           /\ frame'[t].pc = "idle" /\ outcome'[t].kind # "none"
           /\ frame[t].pc # "idle" \/ calls' # calls
           => HoldsCallOf(self'.last_request, t, caller', frame', self'.apikey)]_vars

\* C17: last_request is one slot, written by call when (and only when) a
\* response has arrived, before the body is parsed: that step replaces the
\* whole slot by the record of the call just answered, whose request_body is
\* the serialized body that was sent, credential included; every other step
\* (a call whose params do not serialize, a POST that fails, construction)
\* leaves the slot as it was, None until the first response.
C17_SlotHoldsLastAnsweredCall ==
    [][/\ \A t \in Threads :
              frame[t].pc = "received" /\ frame'[t].pc = "parse" =>
                  /\ HoldsCallOf(self'.last_request, t, caller, frame, self.apikey)
                  /\ DOMAIN self'.last_request =
                         {"url", "request_body", "response_body", "remote_addr", "response", "time"}
                  /\ \E i \in 1..Len(net) : net[i].data = self'.last_request.request_body
                  /\ Has(loads(self'.last_request.request_body).val, "key", self.apikey)
       /\ (\A t \in Threads : ~(frame[t].pc = "received" /\ frame'[t].pc = "parse")) =>
              self'.last_request = self.last_request
       /\ Logged("Received") = 0 => self.last_request = PyNone]_vars

C17_Witness ==
    /\ calls = 2
    /\ \A t \in Threads : Answered(t)
    /\ frame["main"].r.status_code = 200 /\ caller["main"].url = "users/ping"
    /\ frame["worker"].r.status_code = 500 /\ caller["worker"].url = "templates/info"
    /\ HoldsCallOf(self.last_request, "worker", caller, frame, self.apikey)
    /\ ~HoldsCallOf(self.last_request, "main", caller, frame, self.apikey)

\* what a call yields, from the credential, the params given and what the
\* transport did (answered or not, and with which status and text) alone
OutcomeOf(key, given, answered, status, text) ==
    IF ~dumps(MergeKey(given, key)).ok THEN Raised(Exc("TypeError", PyNone))
    ELSE IF ~answered THEN Raised(Exc("ConnectionError", PyNone))
    ELSE Dispatch([status_code |-> status, text |-> text, peer |-> "", elapsed |-> 0])

\* the call of t and the call of u had the same inputs and the same response
SameCall(t, u) ==
    /\ caller[t].url = caller[u].url
    /\ caller[t].given = caller[u].given
    /\ (frame[t].r = NoFrame.r) = (frame[u].r = NoFrame.r)
    /\ frame[t].r.status_code = frame[u].r.status_code
    /\ frame[t].r.text = frame[u].r.text

\* C18: the outcome of a call is a function of the credential, the params
\* and the transport's response only: it is the same for a client made with
\* or without debug, whatever last_request held before and whatever calls
\* came earlier, and two calls with the same inputs and the same response
\* have the same outcome.
C18_OutcomeDependsOnInputsOnly ==
    /\ \A t \in Threads :
           Completed(t) =>
               outcome[t] = OutcomeOf(self.apikey, caller[t].given, frame[t].r # NoFrame.r,
                                      frame[t].r.status_code, frame[t].r.text)
    /\ \A t, u \in Threads :
           Completed(t) /\ Completed(u) /\ SameCall(t, u) => outcome[t] = outcome[u]

C18_Witness ==
    /\ calls = 2
    /\ ctor.debug
    /\ Answered("main") /\ Answered("worker")
    /\ SameCall("main", "worker")
    /\ frame["worker"].r.status_code = 500
    /\ outcome["worker"].exc.type = "InvalidKeyError"
    /\ outcome["main"] = outcome["worker"]

\* the level chosen by the constructor's debug argument
ChosenLevel == IF ctor.debug THEN "INFO" ELSE "DEBUG"
Last(seq) == seq[Len(seq)]

\* C19: in every call the log line with the endpoint and the serialized body
\* comes first, then the POST, then, only if a response arrived, the log line
\* with its status and body; every line is logged at the level chosen at
\* construction (INFO with debug, DEBUG without), and no step of a constructed
\* client changes that level.
C19_LogOrderAndLevel ==
    [][/\ client' = "ready" =>
              /\ self'.level = ChosenLevel'
              /\ \A i \in 1..Len(logged') : logged'[i].level = self'.level
       /\ client = "ready" => self'.level = self.level /\ ctor'.debug = ctor.debug
       /\ Len(net') > Len(net) =>
              /\ logged' = logged
              /\ Len(logged) > 0
              /\ Last(logged).event = "POST to"
              /\ Last(logged).what = Last(net').url
              /\ Last(logged).body = Last(net').data
       /\ Len(logged') > Len(logged) /\ Last(logged').event = "Received" =>
              /\ net' = net
              /\ Last(logged).event = "POST to"
              /\ Last(logged).body = Last(net).data
              /\ \E t \in Threads :
                     /\ frame[t].pc = "received"
                     /\ Last(logged').what = frame[t].r.status_code
                     /\ Last(logged').body = frame[t].r.text
       /\ Len(logged') > Len(logged) /\ Last(logged').event = "POST to" =>
              /\ net' = net
              /\ \E t \in Threads : frame'[t].pc = "post" /\ Last(logged').body = frame'[t].params
       /\ Logged("Received")' <= Len(net')
       /\ Len(logged') <= Len(logged) + 1]_vars

C19_Witness ==
    /\ ~ctor.debug
    /\ calls = 1
    /\ Answered("main")
    /\ Len(net) = 1
    /\ Len(logged) = 2
    /\ logged[1].event = "POST to" /\ logged[1].level = "DEBUG"
    /\ logged[2].event = "Received" /\ logged[2].level = "DEBUG"
    /\ self.level = "DEBUG"

\* the step of t in which cast_error runs: the body of a failed response
\* has been parsed and the call ends
Classifies(t) ==
    /\ frame[t].pc = "parse"
    /\ frame'[t].pc = "idle"
    /\ frame[t].r.status_code # 200
    /\ loads(frame[t].r.text).ok

\* C20: cast_error is pure: the step in which it runs sends nothing, logs
\* nothing, reads no file and leaves apikey, session, last_request and the
\* log level as they were, and the exception it yields is determined by the
\* body alone, whatever the client, the endpoint and the params are.
C20_CastErrorIsPure ==
    [][\A t \in Threads :
           Classifies(t) =>
               /\ net' = net
               /\ logged' = logged
               /\ environ' = environ /\ files' = files
               /\ self' = self
               /\ client' = client /\ ctor' = ctor
               /\ outcome'[t].kind = "raise"
               /\ outcome'[t].exc = cast_error(loads(frame[t].r.text).val).exc]_vars

C20_Witness ==
    /\ Failed("main")
    /\ ctor.debug
    /\ ParsedBody("main") = ErrorBody(PyStr("Unknown_Export"), "m")
    /\ outcome["main"] = Raised(Exc("UnknownExportError", PyStr("m")))
    /\ self.last_request # PyNone
    /\ self.last_request.response_body = frame["main"].r.text
    /\ Len(logged) = 2

(***************************************************************************)
(* The namespaced methods: an application imports the module, constructs   *)
(* a client and invokes methods of its namespaces                          *)
(***************************************************************************)
\* the methods explored, each with the endpoint literal of its body
Endpoints ==
    [m \in {"users.ping", "templates.info", "messages.send", "webhooks.add"} |->
        CASE m = "users.ping" -> "users/ping"
          [] m = "templates.info" -> "templates/info"
          [] m = "messages.send" -> "messages/send"
          [] m = "webhooks.add" -> "webhooks/add"]

\* the arguments a method is invoked with, defaults filled in
Message == PyDict(<<Entry("to", PyStr("a@b.c"))>>)
Invocations ==
    {[method |-> "users.ping", args |-> <<>>],
     [method |-> "templates.info", args |-> <<PyStr("missing")>>],
     [method |-> "webhooks.add", args |-> <<PyStr("https://h.example/hook"), PyNone, PyList(<<>>)>>]}
    \cup {[method |-> "messages.send", args |-> <<message, async>>] :
              message \in {Message, PyObject("set")}, async \in {PyFalse, PyTrue}}

\* the _params literal of a method's body
BuildParams(method, args) ==
    CASE method = "users.ping" -> PyDict(<<>>)
      [] method = "templates.info" -> PyDict(<<Entry("name", args[1])>>)
      [] method = "messages.send" ->
             PyDict(<<Entry("message", args[1]), Entry("async", args[2])>>)
      [] method = "webhooks.add" ->
             PyDict(<<Entry("url", args[1]), Entry("description", args[2]),
                      Entry("events", args[3])>>)

\* return self.master.call(endpoint, _params)
Method(t, method, args) == Call(t, Endpoints[method], BuildParams(method, args))

\* import mandrill: the module is compiled. Where the interpreter's grammar
\* reserves the word async (Python 3.7 and later) the parameter lists of
\* lines 1067, 1157 and 1332 are a SyntaxError and no class is defined
Import(reserved) ==
    /\ client = "unloaded"
    /\ IF reserved
       THEN /\ client' = "broken"
            /\ outcome' = [outcome EXCEPT !["main"] = Raised(Exc("SyntaxError", PyNone))]
       ELSE /\ client' = "none"
            /\ outcome' = outcome
    /\ UNCHANGED <<environ, files, ctor, self, frame, caller, net, logged, calls>>

\* endpoints given to call directly, which no method names
OddUrls == {"", "no such/endpoint?x=1"}

ApiResponses ==
    {[status_code |-> 200, text |-> Encode(PyStr("PONG!")),
      peer |-> "203.0.113.9:443", elapsed |-> 12],
     [status_code |-> 500, text |-> Encode(ErrorBody(PyStr("Unknown_Url"), "m")),
      peer |-> "None:None", elapsed |-> 340]}

InitApi ==
    /\ environ = PyDict(<<>>)
    /\ files = [p \in {KeyPaths[1], KeyPaths[2]} |-> File(FALSE, <<>>)]
    /\ client = "unloaded"
    /\ ctor = [apikey |-> PyNone, debug |-> FALSE, exc |-> NoExc]
    /\ self = [session |-> "", level |-> "", last_request |-> PyNone, apikey |-> PyNone]
    /\ frame = [t \in Threads |-> NoFrame]
    /\ caller = [t \in Threads |-> [url |-> "", given |-> PyNone, params |-> PyNone]]
    /\ outcome = [t \in Threads |-> NoOutcome]
    /\ net = <<>>
    /\ logged = <<>>
    /\ calls = 0

ApiImport == \E reserved \in BOOLEAN : Import(reserved)
ApiConstruct == \E debug \in BOOLEAN : Construct(PyStr("argkey"), debug)
ApiMethod ==
    /\ calls < MaxCalls
    /\ \A u \in Threads : frame[u].pc = "idle"
    /\ \E t \in Threads, i \in Invocations : Method(t, i.method, i.args)
ApiCall ==
    /\ calls < MaxCalls
    /\ \A u \in Threads : frame[u].pc = "idle"
    /\ \E t \in Threads, url \in OddUrls : Call(t, url, PyNone)
ApiPost ==
    \E t \in Threads, r \in ApiResponses : Post(t, r.status_code, r.text, r.peer, r.elapsed)

NextApi ==
    \/ ApiImport
    \/ ApiConstruct
    \/ ApiMethod
    \/ ApiCall
    \/ ApiPost
    \/ SessionPostFails
    \/ SessionRecord
    \/ SessionFinish

SpecApi == InitApi /\ [][NextApi]_vars

\* the call of t was made by a method: its endpoint and the params given
\* to call are those of one of the invocations
ByMethod(t) ==
    \E i \in Invocations :
        /\ caller[t].url = Endpoints[i.method]
        /\ caller[t].given = BuildParams(i.method, i.args)

\* C21 as claimed: a namespaced method is one invocation of call, so
\* whatever an application gets from using one is what call yields for the
\* method's endpoint and params: a value or an error of call's, after one
\* invocation of call, with async forwarded as the entry 'async'.
C21_MethodIsOneCall ==
    \A t \in Threads :
        Completed(t) =>
            /\ calls >= 1
            /\ ByMethod(t) \/ caller[t].url \in OddUrls
            /\ outcome[t] = OutcomeOf(self.apikey, caller[t].given, frame[t].r # NoFrame.r,
                                      frame[t].r.status_code, frame[t].r.text)

\* C22: every request of a client is a POST to
\* 'https://mandrillapp.com/api/1.0/' + endpoint + '.json' with the header
\* content-type: application/json, sent through the session made by the
\* constructor; the session field is never assigned again, and the endpoint
\* goes into the URL as the caller gave it, whatever it is.
C22_RequestShape ==
    [][/\ \A i \in 1..Len(net') :
              /\ net'[i].method = "POST"
              /\ net'[i].headers.content_type = "application/json"
              /\ net'[i].session = self'.session
       /\ Len(net') > Len(net) =>
              \E t \in Threads :
                  /\ frame[t].pc = "post"
                  /\ Last(net').url =
                         "https://mandrillapp.com/api/1.0/" \o caller[t].url \o ".json"
       /\ client = "none" /\ client' = "ready" => self'.session = "session"
       /\ client = "ready" => self'.session = self.session]_vars

C22_Witness ==
    /\ Len(net) = 2
    /\ net[1].url = "https://mandrillapp.com/api/1.0/no such/endpoint?x=1.json"
    /\ net[2].url = "https://mandrillapp.com/api/1.0/webhooks/add.json"
    /\ net[1].session = "session" /\ net[2].session = "session"
    /\ \A t \in Threads : Completed(t)

(***************************************************************************)
(* A thread that is inside call runs on: once the transport has answered,  *)
(* the statements of lines 108-117 are executed                            *)
(***************************************************************************)
InitRoundTrip ==
    /\ environ = PyDict(<<>>)
    /\ files = [p \in {KeyPaths[1], KeyPaths[2]} |-> File(FALSE, <<>>)]
    /\ client = "none"
    /\ ctor = [apikey |-> PyNone, debug |-> FALSE, exc |-> NoExc]
    /\ self = [session |-> "", level |-> "", last_request |-> PyNone, apikey |-> PyNone]
    /\ frame = [t \in Threads |-> NoFrame]
    /\ caller = [t \in Threads |-> [url |-> "", given |-> PyNone, params |-> PyNone]]
    /\ outcome = [t \in Threads |-> NoOutcome]
    /\ net = <<>>
    /\ logged = <<>>
    /\ calls = 0

\* what the transport answers: a value, an error body without fields, a page
RoundTripResponses ==
    {[status_code |-> 200, text |-> Encode(PyStr("PONG!")),
      peer |-> "203.0.113.9:443", elapsed |-> 12],
     [status_code |-> 500, text |-> Encode(PyDict(<<>>)), peer |-> "None:None", elapsed |-> 340],
     [status_code |-> 500, text |-> <<Tok("junk", "<html>")>>,
      peer |-> "203.0.113.9:443", elapsed |-> 7]}

RoundTripPost ==
    \E t \in Threads, r \in RoundTripResponses :
        Post(t, r.status_code, r.text, r.peer, r.elapsed)

NextRoundTrip ==
    \/ ApiConstruct
    \/ SessionCall
    \/ RoundTripPost
    \/ SessionPostFails
    \/ SessionRecord
    \/ SessionFinish

\* the transport may never answer (no timeout is set), so the POST is not fair
SpecRoundTrip ==
    /\ InitRoundTrip
    /\ [][NextRoundTrip]_vars
    /\ \A t \in Threads : WF_vars(Record(t)) /\ WF_vars(Finish(t))

\* C23: a call ends only after its own round trip: a call that has returned
\* a value or raised a mandrill.Error has had a response to its own POST,
\* and a call whose POST has been answered ends (returns or raises) after
\* the two steps that remain, without sending again.
C23_BlocksUntilRoundTripEnds ==
    /\ [][\A t \in Threads :
              /\ (outcome'[t].kind = "return" \/ IsError(outcome'[t].exc)) =>
                     /\ frame'[t].r # NoFrame.r
                     /\ \E i \in 1..Len(net') : net'[i].data = frame'[t].params
              /\ frame[t].pc = "received" => frame'[t].pc \in {"received", "parse"}
              /\ frame[t].pc = "parse" => frame'[t].pc \in {"parse", "idle"}
              /\ frame[t].pc = "parse" /\ frame'[t].pc = "idle" =>
                     outcome'[t].kind # "none" /\ net' = net
              /\ frame[t].pc = "post" /\ frame'[t].pc = "idle" =>
                     outcome'[t].kind = "raise"]_vars
    /\ \A t \in Threads : (frame[t].pc = "received") ~> Completed(t)

C23_Witness ==
    /\ calls = 2
    /\ Answered("main") /\ outcome["main"].kind = "return"
    /\ TransportFailed("worker")
    /\ Len(net) = 2

(***************************************************************************)
(* Two threads share one client and each invokes call once, their steps    *)
(* interleaved in every order                                              *)
(***************************************************************************)
ConcCalls ==
    {[url |-> "users/ping", params |-> PyDict(<<>>)],
     [url |-> "templates/info", params |-> PyDict(<<Entry("name", PyStr("missing"))>>)],
     [url |-> "users/ping", params |-> PyDict(<<Entry("message", PyObject("set"))>>)]}

ConcCall ==
    \E t \in Threads, c \in ConcCalls :
        /\ outcome[t].kind = "none"
        /\ Call(t, c.url, c.params)

NextConc ==
    \/ ApiConstruct
    \/ ConcCall
    \/ SessionPost
    \/ SessionPostFails
    \/ SessionRecord
    \/ SessionFinish

SpecConc == InitRoundTrip /\ [][NextConc]_vars

\* the other thread
Other(t) == CHOOSE u \in Threads : u # t

\* C24: with calls of two threads interleaved, the slot is replaced as a
\* whole: a step that changes last_request is one step of one thread and
\* puts there the complete record of that thread's call, so whatever is read
\* from the slot is None or url, request_body, response_body and time of
\* one and the same call; a step of one thread changes nothing that belongs
\* to the other thread's call.
C24_SlotReplacedAtomically ==
    [][/\ self'.last_request # self.last_request =>
              \E t \in Threads :
                  /\ frame[t].pc = "received" /\ frame'[t].pc = "parse"
                  /\ frame'[Other(t)] = frame[Other(t)]
                  /\ HoldsCallOf(self'.last_request, t, caller, frame, self.apikey)
                  /\ DOMAIN self'.last_request =
                         {"url", "request_body", "response_body", "remote_addr", "response", "time"}
       /\ self'.last_request # PyNone =>
              /\ self'.last_request.response.text = self'.last_request.response_body
              /\ self'.last_request.response.elapsed = self'.last_request.time
              /\ \E i \in 1..Len(net') :
                     /\ net'[i].url = ROOT \o self'.last_request.url \o ".json"
                     /\ net'[i].data = self'.last_request.request_body
       /\ \A t \in Threads :
              frame'[t] # frame[t] \/ outcome'[t] # outcome[t] \/ caller'[t] # caller[t] =>
                  /\ frame'[Other(t)] = frame[Other(t)]
                  /\ outcome'[Other(t)] = outcome[Other(t)]
                  /\ caller'[Other(t)] = caller[Other(t)]]_vars

\* both calls are in flight, and the slot holds the record of the call
\* answered second while the call answered first has not ended
C24_Witness ==
    /\ frame["main"].pc = "parse" /\ frame["worker"].pc = "parse"
    /\ caller["main"].url = "users/ping" /\ caller["worker"].url = "templates/info"
    /\ frame["main"].r.status_code = 200 /\ frame["worker"].r.status_code = 500
    /\ HoldsCallOf(self.last_request, "worker", caller, frame, self.apikey)

\* the body is a mapping that lacks 'status', has a status other than
\* "error", or lacks 'name'
MalformedObject(body) ==
    /\ body.t = "dict"
    /\ \/ ~DictHas(body, "status")
       \/ DictGet(body, "status") # PyStr("error")
       \/ ~DictHas(body, "name")

\* C25 as claimed: cast_error never raises: for every body of a failed
\* response it hands the error back as a value, the generic kind for a
\* malformed body included.
C25_Original ==
    \A t \in Threads : Failed(t) => ~cast_error(ParsedBody(t)).raised

\* C25: cast_error hands the classification back as a value, for call to
\* raise, when the body is a mapping with status "error", a name and a
\* message; for a malformed mapping (no status, a status other than
\* "error", or no name) cast_error itself raises the generic Error. Either
\* way call ends with that exception.
C25_MalformedIsRaisedByClassifier ==
    \A t \in Threads :
        Failed(t) =>
            LET body == ParsedBody(t)
                e == cast_error(body)
            IN  /\ MalformedObject(body) => e.raised /\ e.exc.type = "Error"
                /\ /\ body.t = "dict"
                   /\ Has(body, "status", PyStr("error"))
                   /\ DictHas(body, "name") /\ Hashable(DictGet(body, "name"))
                   /\ DictHas(body, "message")
                   => ~e.raised /\ IsError(e.exc)
                /\ ~e.raised => ~MalformedObject(body)
                /\ outcome[t] = Raised(e.exc)

C25_Witness ==
    /\ Failed("main")
    /\ ParsedBody("main") = PyDict(<<Entry("name", PyStr("Invalid_Key")),
                                     Entry("message", PyStr("m"))>>)
    /\ cast_error(ParsedBody("main")).raised
    /\ outcome["main"].exc.type = "Error"

\* C26: with calls of two threads interleaved, each call yields what its own
\* response calls for: the parsed body of the response to its own POST when
\* the status is 200, the error classified from that body otherwise, the
\* parse failure of that body when it is not JSON; and its request carries
\* its own params.
C26_OutcomeIsOwn ==
    \A t \in Threads :
        /\ Answered(t) =>
               LET own == loads(frame[t].r.text) IN
               /\ \E i \in 1..Len(net) :
                      /\ net[i].url = ROOT \o caller[t].url \o ".json"
                      /\ loads(net[i].data).val = caller[t].params
               /\ outcome[t] =
                      IF ~own.ok THEN Raised(Exc("ValueError", PyNone))
                      ELSE IF frame[t].r.status_code = 200 THEN Returned(own.val)
                      ELSE Raised(cast_error(own.val).exc)
        /\ TransportFailed(t) => outcome[t].exc.type = "ConnectionError"

\* both calls were answered, the slot holds the record of the call answered
\* second, and each call has the outcome of its own response
C26_Witness ==
    /\ Answered("main") /\ Answered("worker")
    /\ frame["main"].r.status_code = 200 /\ frame["worker"].r.status_code = 500
    /\ outcome["main"] = Returned(PyStr("PONG!"))
    /\ outcome["worker"].exc.type = "InvalidKeyError"
    /\ HoldsCallOf(self.last_request, "worker", caller, frame, self.apikey)
    /\ caller["main"].url # caller["worker"].url

\* C27 as claimed: in every interleaving, when a call that was answered
\* ends, last_request holds the record of that very call.
C27_Original ==
    [][\A t \in Threads :
           frame[t].pc = "parse" /\ frame'[t].pc = "idle" =>
               HoldsCallOf(self'.last_request, t, caller', frame', self'.apikey)]_vars

\* the log record of the response received last
LastReceived ==
    logged[CHOOSE i \in 1..Len(logged) :
               /\ logged[i].event = "Received"
               /\ \A j \in (i + 1)..Len(logged) : logged[j].event # "Received"]

\* a response to the call of u has been stored in the slot
Recorded(u) == frame[u].pc \in {"parse", "idle"} /\ frame[u].r # NoFrame.r

\* C27: when a call that was answered ends while another thread uses the
\* client, last_request holds the complete record of one call whose
\* response has been stored: that of the ending call, or that of the other
\* thread's call if its response was stored later. It is the ending call's
\* own record whenever no response to the other thread's call has been
\* stored.
C27_SlotHoldsLastStoredRecord ==
    [][\A t \in Threads :
           frame[t].pc = "parse" /\ frame'[t].pc = "idle" =>
               /\ self'.last_request # PyNone
               /\ \/ HoldsCallOf(self'.last_request, t, caller, frame, self.apikey)
                  \/ /\ Recorded(Other(t))
                     /\ HoldsCallOf(self'.last_request, Other(t), caller, frame, self.apikey)
               /\ ~Recorded(Other(t)) =>
                      HoldsCallOf(self'.last_request, t, caller, frame, self.apikey)
               /\ self'.last_request.response_body = LastReceived.body
               /\ self'.last_request.response.status_code = LastReceived.what]_vars

\* the call of main has ended and the slot holds the record of worker's
\* call, which is still running
C27_Witness ==
    /\ Answered("main")
    /\ frame["worker"].pc = "parse"
    /\ caller["main"].url = "templates/info" /\ caller["worker"].url = "users/ping"
    /\ HoldsCallOf(self.last_request, "worker", caller, frame, self.apikey)
    /\ ~HoldsCallOf(self.last_request, "main", caller, frame, self.apikey)

\* the call of t has raised because of the response it received: a parse
\* failure or a classified error
RaisedOnResponse(t) == Answered(t) /\ outcome[t].kind = "raise"

\* C28: the slot is written between the arrival of the response and the
\* parsing of its body: a call that is about to parse has its record in the
\* slot already, and when a call raises a classified error or a parse
\* failure, on a client whose calls follow one another, the slot holds the
\* record of that failing call, its response_body being the body that made
\* it fail, and not the record of an earlier call.
C28_SlotWrittenBeforeRaise ==
    [][\A t \in Threads :
           /\ frame'[t].pc = "parse" =>
                  HoldsCallOf(self'.last_request, t, caller', frame', self'.apikey)
           /\ frame[t].pc = "parse" /\ frame'[t].pc = "idle" /\ outcome'[t].kind = "raise" =>
                  /\ HoldsCallOf(self'.last_request, t, caller, frame, self.apikey)
                  /\ self'.last_request = self.last_request
                  /\ self'.last_request.response_body = frame[t].r.text
                  /\ \/ ~loads(self'.last_request.response_body).ok
                     \/ self'.last_request.response.status_code # 200]_vars

\* the first call returned, the second raised on a page that is not JSON,
\* and the slot holds the second call's record
C28_Witness ==
    /\ calls = 2
    /\ Answered("main") /\ outcome["main"].kind = "return"
    /\ RaisedOnResponse("worker")
    /\ outcome["worker"].exc.type = "ValueError"
    /\ self.last_request.response_body = <<Tok("junk", "<html>")>>
    /\ caller["main"].url # caller["worker"].url
    /\ self.last_request.url = caller["worker"].url

\* C29: last_request is None from construction until a call receives a
\* response and is never None again; a call whose params cannot be
\* serialized and a call whose POST fails leave the slot exactly as it was
\* before them.
C29_SlotNoneUntilFirstResponse ==
    [][/\ client = "none" => self'.last_request = PyNone
       /\ Logged("Received")' = 0 <=> self'.last_request = PyNone
       /\ self.last_request # PyNone => self'.last_request # PyNone
       /\ \A t \in Threads :
              \* the call of t begins, and ends at once if its params do not serialize
              /\ frame[t].pc = "idle" /\ calls' # calls => self'.last_request = self.last_request
              \* the POST of t is made: answered or failed
              /\ frame[t].pc = "post" /\ frame'[t].pc \in {"received", "idle"} =>
                     self'.last_request = self.last_request]_vars

\* a first call was answered; the second call failed at its POST, and the
\* slot still holds the first call's record
C29_Witness ==
    /\ calls = 2
    /\ Answered("main")
    /\ TransportFailed("worker")
    /\ caller["main"].url = "templates/info" /\ caller["worker"].url = "users/ping"
    /\ HoldsCallOf(self.last_request, "main", caller, frame, self.apikey)
    /\ net[2].data = frame["worker"].params

\* C30: call stores the credential into the mapping it is given: once call
\* has been invoked with a mapping, whatever its outcome, the caller's
\* mapping has the entry 'key' with the client's credential, a 'key' entry
\* it had before (left there by a client with another credential, say) is
\* replaced, and its other entries are as they were.
C30_ParamsMutatedInPlace ==
    \A t \in Threads :
        caller[t].url # "" /\ caller[t].given # PyNone =>
            /\ caller[t].params.t = "dict"
            /\ Has(caller[t].params, "key", self.apikey)
            /\ DictWithout(caller[t].params.l, "key") = DictWithout(caller[t].given.l, "key")
            /\ \A i \in 1..Len(caller[t].given.l) :
                   caller[t].given.l[i].k # "key" => caller[t].params.l[i] = caller[t].given.l[i]
            /\ Cardinality({i \in 1..Len(caller[t].params.l) : caller[t].params.l[i].k = "key"}) = 1

\* one call raised before anything was sent, the other was answered with an
\* error: both callers' mappings hold the client's credential, in place of
\* the key one of them held before
C30_Witness ==
    /\ calls = 2
    /\ caller["main"].given = PyDict(<<Entry("message", PyObject("set"))>>)
    /\ outcome["main"].exc.type = "TypeError"
    /\ Has(caller["main"].params, "key", self.apikey)
    /\ Has(caller["worker"].given, "key", PyStr("callerkey"))
    /\ Failed("worker")
    /\ Has(caller["worker"].params, "key", self.apikey)
    /\ self.apikey # PyStr("callerkey")

====
